---- MODULE Spec2Model ----
(***************************************************************************)
(* Model of src/analyze_image.py run as a script (python analyze_image.py). *)
(* The module body executes top to bottom: the first __main__ guard calls   *)
(* main(), the second __main__ guard runs the select / upload / detect /    *)
(* reduce / write pipeline.  Every boto3 call either returns or raises; an  *)
(* uncaught exception ends the process with status 1.                       *)
(* Strings that the code takes apart or builds (file names, paths, object   *)
(* keys) are sequences of one-character strings.                            *)
(***************************************************************************)
EXTENDS Integers, Sequences, FiniteSets, TLC

\* ---------------------------------------------------------------- bounds
\* largest number of entries os.listdir returns
MaxEntries == 2
\* largest number of labels in a response of the vision service
MaxRespLen == 2

\* ------------------------------------------------------- program literals
\* MaxLabels=10 of the detect_labels request
MaxLabels == 10

\* Python's None (os.environ.get of an unset variable)
None == "None"

\* 'images'
images_dir == <<"i","m","a","g","e","s">>
\* 'rekognition-input/' of the f-string in upload_to_s3
KeyPrefix == <<"r","e","k","o","g","n","i","t","i","o","n","-","i","n","p","u","t","/">>
\* photo = 'photo-name' of main()
MainPhoto == <<"p","h","o","t","o","-","n","a","m","e">>
\* bucket = 'amzn-s3-demo-bucket' of main()
MainBucket == "amzn-s3-demo-bucket"
\* the suffix tuple ('.jpg', '.png') of the list comprehension
CodeSuffixes == { <<".","j","p","g">>, <<".","p","n","g">> }

\* ------------------------------------------------------------ the inputs
\* directory entries the runs are tried on
EntryPool ==
  { <<"a",".","p","n","g">>, <<"b",".","j","p","g">>, <<"c",".","j","p","e","g">>,
    <<"n",".","t","x","t">>, <<"d",".","p","n","g">> }
\* a float as the vision service returns it / a Decimal as the table accepts it
Float(h) == [type |-> "float", hundredths |-> h]
\* labels of a raw response: the persisted fields and the rest of the label
RawLabelPool ==
  { [Name |-> "Cat",    Confidence |-> Float(8765), Parents |-> <<"Animal">>, Instances |-> 1],
    [Name |-> "Dog",    Confidence |-> Float(9900), Parents |-> <<"Animal">>, Instances |-> 0],
    [Name |-> "Animal", Confidence |-> Float(9900), Parents |-> <<>>,         Instances |-> 0] }

\* all sequences over S of length at most n
SeqsUpTo(S, n) == UNION { [1..k -> S] : k \in 0..n }
\* all sequences of distinct elements of S of length at most n
Listings(S, n) == { s \in SeqsUpTo(S, n) : \A i, j \in 1..Len(s) : i # j => s[i] # s[j] }

\* ------------------------------------------------------- string helpers
\* str.endswith(suffix)
EndsWith(s, suf) ==
  /\ Len(s) >= Len(suf)
  /\ SubSeq(s, Len(s) - Len(suf) + 1, Len(s)) = suf
\* str.endswith(tuple of suffixes)
EndsWithAny(s, sufs) == \E suf \in sufs : EndsWith(s, suf)
\* os.path.join(a, b) for a relative b
PathJoin(a, b) == a \o <<"/">> \o b
\* os.path.basename(p): what follows the last "/"
Basename(p) ==
  LET slashes == { i \in 1..Len(p) : p[i] = "/" }
  IN  IF slashes = {} THEN p
      ELSE LET last == CHOOSE i \in slashes : \A j \in slashes : j <= i
           IN  SubSeq(p, last + 1, Len(p))
\* [f for f in os.listdir(images_dir) if f.endswith(('.jpg', '.png'))]
RECURSIVE FilterImages(_)
FilterImages(l) ==
  IF l = <<>> THEN <<>>
  ELSE IF EndsWithAny(Head(l), CodeSuffixes)
       THEN <<Head(l)>> \o FilterImages(Tail(l))
       ELSE FilterImages(Tail(l))
\* s3_key = f'rekognition-input/{filename}' with filename = basename(image_path)
S3KeyOf(image_path) == KeyPrefix \o Basename(image_path)
\* a reduction that loses the last label of the response
FormatLabels_DropLast(labels) ==
  [ i \in 1..(Len(labels) - 1) |->
      [Name |-> labels[i].Name, Confidence |-> labels[i].Confidence] ]
\* the reduction: [{'Name': ..., 'Confidence': ...} for label in response['Labels']]
FormatLabels(labels) ==
  [ i \in 1..Len(labels) |->
      [Name |-> labels[i].Name, Confidence |-> labels[i].Confidence] ]

\* ----------------------------------------------------------------- state
VARIABLES
  pc,              \* position of the script
  dirExists,       \* whether images/ exists
  listing,         \* what os.listdir('images') returns, in the order returned
  bucket_name, table_name, branch_name,   \* os.environ.get(...) results
  image_filename,  \* image_files[0]
  s3_key,          \* the key upload_to_s3 returned
  response,        \* response['Labels'] of the pipeline's detect_labels
  formatted_labels,
  calls,           \* the boto3 service calls made so far, in order, with outcome
  writer_args,     \* the arguments of the write_to_dynamodb call
  objects,         \* contents of object storage
  table,           \* contents of the table
  objects0, table0,\* both as they were when the run started
  exitCode,        \* -1 while running, then the exit status
  error            \* the exception that ended the run

vars == << pc, dirExists, listing, bucket_name, table_name, branch_name,
           image_filename, s3_key, response, formatted_labels, calls,
           writer_args, objects, table, objects0, table0, exitCode, error >>

NoName == <<>>
NoWriterCall ==
  [called |-> FALSE, filename |-> NoName, labels |-> <<>>,
   table_name |-> None, branch |-> None]
\* what an earlier run left behind
OldObject == [bucket |-> "my-bucket", key |-> KeyPrefix \o <<"z",".","p","n","g">>]
OldRecord == [filename |-> <<"z",".","p","n","g">>, labels |-> <<>>,
              timestamp |-> "2024-01-01T00:00:00Z", branch |-> "main"]

Init ==
  /\ pc = "main"
  /\ dirExists \in BOOLEAN
  /\ listing \in Listings(EntryPool, MaxEntries)
  /\ (~dirExists => listing = <<>>)
  /\ bucket_name \in {None, "my-bucket"}
  /\ table_name \in {None, "labels-table"}
  /\ branch_name \in {None, "main"}
  /\ image_filename = NoName
  /\ s3_key = NoName
  /\ response = <<>>
  /\ formatted_labels = <<>>
  /\ calls = <<>>
  /\ writer_args = NoWriterCall
  /\ objects \in {{}, {OldObject}}
  /\ table \in {{}, {OldRecord}}
  /\ objects0 = objects
  /\ table0 = table
  /\ exitCode = -1
  /\ error = "none"

\* an uncaught exception (or exit(1)) ends the process with status 1
Raise(e) ==
  /\ pc' = "exit"
  /\ exitCode' = 1
  /\ error' = e

Call(op, b, k, m, ok) == [op |-> op, bucket |-> b, key |-> k, max |-> m, ok |-> ok]

\* ------------------------------------------------ first __main__ guard
\* main(): detect_labels('photo-name', 'amzn-s3-demo-bucket') returns
MainDetectReturns ==
  /\ pc = "main"
  /\ calls' = Append(calls, Call("detect_labels", MainBucket, MainPhoto, MaxLabels, TRUE))
  /\ pc' = "select"
  /\ UNCHANGED << dirExists, listing, bucket_name, table_name, branch_name,
                  image_filename, s3_key, response, formatted_labels,
                  writer_args, objects, table, objects0, table0, exitCode, error >>

\* main(): the same call raises, the script ends before the second guard
MainDetectRaises ==
  /\ pc = "main"
  /\ calls' = Append(calls, Call("detect_labels", MainBucket, MainPhoto, MaxLabels, FALSE))
  /\ Raise("ClientError")
  /\ UNCHANGED << dirExists, listing, bucket_name, table_name, branch_name,
                  image_filename, s3_key, response, formatted_labels,
                  writer_args, objects, table, objects0, table0 >>

\* ----------------------------------------------- second __main__ guard
\* os.listdir('images') on a missing directory
ListDirRaises ==
  /\ pc = "select"
  /\ ~dirExists
  /\ Raise("FileNotFoundError")
  /\ UNCHANGED << dirExists, listing, bucket_name, table_name, branch_name,
                  image_filename, s3_key, response, formatted_labels, calls,
                  writer_args, objects, table, objects0, table0 >>

\* if not image_files: print(...); exit(1)
NoImagesExit ==
  /\ pc = "select"
  /\ dirExists
  /\ FilterImages(listing) = <<>>
  /\ Raise("SystemExit")
  /\ UNCHANGED << dirExists, listing, bucket_name, table_name, branch_name,
                  image_filename, s3_key, response, formatted_labels, calls,
                  writer_args, objects, table, objects0, table0 >>

\* image_filename = image_files[0]
SelectFirstImage ==
  /\ pc = "select"
  /\ dirExists
  /\ FilterImages(listing) # <<>>
  /\ image_filename' = FilterImages(listing)[1]
  /\ pc' = "upload"
  /\ UNCHANGED << dirExists, listing, bucket_name, table_name, branch_name,
                  s3_key, response, formatted_labels, calls,
                  writer_args, objects, table, objects0, table0, exitCode, error >>

\* s3_key = upload_to_s3(image_path, bucket_name): the upload succeeds
UploadReturns ==
  /\ pc = "upload"
  /\ bucket_name # None
  /\ LET image_path == PathJoin(images_dir, image_filename)
         key == S3KeyOf(image_path)
     IN  /\ calls' = Append(calls, Call("upload_file", bucket_name, key, 0, TRUE))
         /\ objects' = objects \cup { [bucket |-> bucket_name, key |-> key] }
         /\ s3_key' = key
  /\ pc' = "detect"
  /\ UNCHANGED << dirExists, listing, bucket_name, table_name, branch_name,
                  image_filename, response, formatted_labels,
                  writer_args, table, objects0, table0, exitCode, error >>

\* the upload raises: a service error, or Bucket=None rejected by the client
UploadRaises ==
  /\ pc = "upload"
  /\ LET image_path == PathJoin(images_dir, image_filename)
         key == S3KeyOf(image_path)
     IN  calls' = Append(calls, Call("upload_file", bucket_name, key, 0, FALSE))
  /\ Raise("S3UploadFailedError")
  /\ UNCHANGED << dirExists, listing, bucket_name, table_name, branch_name,
                  image_filename, s3_key, response, formatted_labels,
                  writer_args, objects, table, objects0, table0 >>

\* response = detect_labels(s3_key, bucket_name): at most MaxLabels labels come back
DetectReturns ==
  /\ pc = "detect"
  /\ \E r \in SeqsUpTo(RawLabelPool, MaxRespLen) :
       /\ Len(r) <= MaxLabels
       /\ response' = r
  /\ calls' = Append(calls, Call("detect_labels", bucket_name, s3_key, MaxLabels, TRUE))
  /\ pc' = "format"
  /\ UNCHANGED << dirExists, listing, bucket_name, table_name, branch_name,
                  image_filename, s3_key, formatted_labels,
                  writer_args, objects, table, objects0, table0, exitCode, error >>

\* a pipeline that swallows the vision error and goes on with no labels
DetectRaises_Swallowed ==
  /\ pc = "detect"
  /\ calls' = Append(calls, Call("detect_labels", bucket_name, s3_key, MaxLabels, FALSE))
  /\ response' = <<>>
  /\ pc' = "format"
  /\ UNCHANGED << dirExists, listing, bucket_name, table_name, branch_name,
                  image_filename, s3_key, formatted_labels,
                  writer_args, objects, table, objects0, table0, exitCode, error >>
\* the vision service raises
DetectRaises ==
  /\ pc = "detect"
  /\ calls' = Append(calls, Call("detect_labels", bucket_name, s3_key, MaxLabels, FALSE))
  /\ Raise("ClientError")
  /\ UNCHANGED << dirExists, listing, bucket_name, table_name, branch_name,
                  image_filename, s3_key, response, formatted_labels,
                  writer_args, objects, table, objects0, table0 >>

\* formatted_labels = [...]
ReduceLabels ==
  /\ pc = "format"
  /\ formatted_labels' = FormatLabels(response)
  /\ pc' = "write"
  /\ UNCHANGED << dirExists, listing, bucket_name, table_name, branch_name,
                  image_filename, s3_key, response, calls,
                  writer_args, objects, table, objects0, table0, exitCode, error >>

\* write_to_dynamodb(s3_key, formatted_labels, table_name, branch_name):
\* `dyanmodb` is not defined, the function raises NameError before put_item
WriteToDynamodb ==
  /\ pc = "write"
  /\ writer_args' = [called |-> TRUE, filename |-> s3_key, labels |-> formatted_labels,
                     table_name |-> table_name, branch |-> branch_name]
  /\ Raise("NameError")
  /\ UNCHANGED << dirExists, listing, bucket_name, table_name, branch_name,
                  image_filename, s3_key, response, formatted_labels, calls,
                  objects, table, objects0, table0 >>

Next ==
  \/ MainDetectReturns
  \/ MainDetectRaises
  \/ ListDirRaises
  \/ NoImagesExit
  \/ SelectFirstImage
  \/ UploadReturns
  \/ UploadRaises
  \/ DetectReturns
  \/ DetectRaises
  \/ ReduceLabels
  \/ WriteToDynamodb

Spec == Init /\ [][Next]_vars

TypeOK ==
  /\ pc \in {"main", "select", "upload", "detect", "format", "write", "exit"}
  /\ exitCode \in {-1, 0, 1}
  /\ (pc = "exit") = (exitCode # -1)

\* ------------------------------------------------ vocabulary of the claims
\* the extensions the specification names
SpecSuffixes == CodeSuffixes \cup { <<".","j","p","e","g">> }
\* the entries of a listing that carry one of them
SpecImages(l) == { l[i] : i \in { j \in 1..Len(l) : EndsWithAny(l[j], SpecSuffixes) } }
\* the characters of the names, in code point order
Alphabet == << "-", ".", "/", "a", "b", "c", "d", "e", "g", "i", "j", "k", "m",
               "n", "o", "p", "r", "t", "u", "x", "z" >>
Ord(c) == CHOOSE i \in 1..Len(Alphabet) : Alphabet[i] = c
\* a < b as Python compares strings
RECURSIVE LexLess(_, _)
LexLess(a, b) ==
  IF b = <<>> THEN FALSE
  ELSE IF a = <<>> THEN TRUE
  ELSE IF Head(a) = Head(b) THEN LexLess(Tail(a), Tail(b))
  ELSE Ord(Head(a)) < Ord(Head(b))
LexMin(S) == CHOOSE m \in S : \A o \in S \ {m} : LexLess(m, o)
\* the service calls and the writer call made so far
NoStageCalled == calls = <<>> /\ ~writer_args.called
VisionCalls == { i \in 1..Len(calls) : calls[i].op = "detect_labels" }
UploadCalls == { i \in 1..Len(calls) : calls[i].op = "upload_file" }
FailedCalls == { i \in 1..Len(calls) : ~calls[i].ok }
\* the selection stage has run
SelectorRan == image_filename # NoName \/ error = "SystemExit"

\* C1: with S3_BUCKET unset the run makes no upload, no vision request and
\* no table write, and it ends with a non-zero status.
C1_NoCallWithoutBucket ==
  bucket_name = None => ( NoStageCalled /\ (pc = "exit" => exitCode # 0) )

\* C2: the stages run in the order selector, uploader, detector, writer: a
\* vision request only after an upload has returned, an upload only after an
\* image was selected, the writer only after a vision response was received.
C2_StagesInOrder ==
  /\ \A i \in VisionCalls : \E j \in UploadCalls : j < i /\ calls[j].ok
  /\ \A i \in UploadCalls : image_filename # NoName
  /\ writer_args.called => \E i \in VisionCalls : calls[i].ok

\* C3: the selector returns the lexically smallest entry of the listing
\* that ends in .jpg, .jpeg or .png, whatever the order of the listing.
C3_SelectsLexicallyFirst ==
  (SelectorRan /\ SpecImages(listing) # {})
     => image_filename = LexMin(SpecImages(listing))

\* C4: with the directory absent or without a matching entry the run makes
\* no upload, no vision request and no table write and ends non-zero.
C4_NoImageNoCall ==
  (~dirExists \/ SpecImages(listing) = {})
     => ( NoStageCalled /\ (pc = "exit" => exitCode # 0) )

\* C5: every vision request carries the configured bucket, the key the
\* uploader returned in this run ("rekognition-input/" + basename of the
\* selected image) and max-labels 10.
C5_VisionRequestArgs ==
  \A i \in VisionCalls :
     /\ calls[i].bucket = bucket_name
     /\ image_filename # NoName
     /\ calls[i].key = KeyPrefix \o image_filename
     /\ calls[i].key = s3_key
     /\ calls[i].max = 10

\* C6: the record the writer is given is keyed by the file name of the
\* selected image, not by the object key; it carries the reduced labels and
\* the branch.
C6_RecordKeyedByFilename ==
  writer_args.called =>
     /\ writer_args.filename = image_filename
     /\ writer_args.labels = formatted_labels
     /\ writer_args.branch = branch_name

\* C7: a run with the configuration present, an image selected and every
\* cloud call successful ends with status 0 after a table write.
C7_SuccessfulRunExitsZero ==
  ( /\ pc = "exit"
    /\ bucket_name # None /\ table_name # None
    /\ image_filename # NoName
    /\ FailedCalls = {} )
     => ( /\ exitCode = 0
          /\ writer_args.called
          /\ \E r \in table : r.filename = writer_args.filename )

\* C8: when the upload or a label detection fails the run is over with a
\* non-zero status, the failed call is the last stage called, the table is
\* what it was before the run and nothing uploaded has been deleted.
C8_FailureAbortsRun ==
  \A i \in FailedCalls :
     /\ pc = "exit"
     /\ exitCode # 0
     /\ i = Len(calls)
     /\ ~writer_args.called
     /\ table = table0
     /\ objects0 \subseteq objects
     /\ (s3_key # NoName => [bucket |-> bucket_name, key |-> s3_key] \in objects)
\* a label detection on the uploaded image has failed
C8_Witness ==
  /\ pc = "exit"
  /\ s3_key # NoName
  /\ Len(calls) = 3
  /\ calls[3].op = "detect_labels" /\ ~calls[3].ok

\* C9: every Confidence of the labels given to the writer for the put is
\* an exact decimal, never a binary float.
C9_ConfidencesAreDecimal ==
  writer_args.called =>
     \A i \in 1..Len(writer_args.labels) :
        writer_args.labels[i].Confidence.type = "Decimal"

\* C10: the reduction of a response of N labels has N entries, entry i has
\* exactly the fields Name and Confidence with the values of label i, and
\* the writer is given a label sequence of length N.
C10_ReductionKeepsOrderAndFields ==
  (pc = "write" \/ writer_args.called) =>
     /\ Len(formatted_labels) = Len(response)
     /\ \A i \in 1..Len(response) :
          /\ DOMAIN formatted_labels[i] = {"Name", "Confidence"}
          /\ formatted_labels[i].Name = response[i].Name
          /\ formatted_labels[i].Confidence = response[i].Confidence
     /\ (writer_args.called => Len(writer_args.labels) = Len(response))
\* the writer was given the reduction of a response of two different labels
C10_Witness ==
  /\ writer_args.called
  /\ Len(response) >= 2
  /\ response[1] # response[2]
  /\ Len(response) <= MaxLabels
====
